---- MODULE Spec2Model ----
(***************************************************************************)
(* Model of apk.rs (src/main.rs): a background task ("the Scheduler")      *)
(* that fetches the product catalogue, categorizes, sorts and renders it   *)
(* into a page, and publishes the page into an Arc<RwLock<String>> that    *)
(* warp request handlers read.                                             *)
(*                                                                         *)
(* Strings of the source that are not ASCII are transliterated:            *)
(*   "Ol" for the beer label, "Roda viner" and "Roseviner" for two of the  *)
(*   wine labels.                                                          *)
(***************************************************************************)
EXTENDS Integers, Sequences, FiniteSets, TLC

(***************************************************************************)
(* Bounds of the model.                                                    *)
(***************************************************************************)
\* longest product list a fetch returns
MaxProducts == 1
\* longest product list render is run on by itself
MaxRenderProducts == 3
\* number of refresh attempts the Scheduler makes before the model stops it
MaxCycles == 3
\* number of concurrently running request handlers
NumReaders == 2

(***************************************************************************)
(* Program constants.                                                      *)
(***************************************************************************)
UPDATE_INTERVAL == 7200
RETRY_INTERVAL == 5

\* Option::None of an Option<String> field
None == "<None>"

Readers == 1..NumReaders

(***************************************************************************)
(* Products (systemet::Product), with the fields main.rs reads.            *)
(***************************************************************************)
Product(cat, sub, ass, alc, vol, price, fee, oos) ==
    [category |-> cat, sub_category |-> sub, assortment |-> ass,
     alcohol_percentage |-> alc, volume |-> vol, price |-> price,
     recycle_fee |-> fee, is_completely_out_of_stock |-> oos]

\* a product the catalogue gives no category
Uncategorized == Product(None, None, "FS", 40, 70, 300, 0, FALSE)
\* an alcoholic product the catalogue gives no assortment
NoAssortment == Product("Sprit", None, None, 40, 70, 300, 0, FALSE)
\* an alcohol-free product the catalogue gives no assortment
NoAssortmentAlcoholFree == Product("Ol", None, None, 0, 33, 10, 1, FALSE)

SampleProducts == {Uncategorized, NoAssortment, NoAssortmentAlcoholFree}

RECURSIVE SeqsUpTo(_, _)
SeqsUpTo(S, n) ==
    IF n = 0 THEN {<< >>}
    ELSE LET shorter == SeqsUpTo(S, n - 1)
         IN  shorter \cup {Append(s, x) : s \in {t \in shorter : Len(t) = n - 1}, x \in S}

\* what get_all_products can return on success
Catalogs == SeqsUpTo(SampleProducts, MaxProducts)

\* category and sub_category as the catalogue gives them: each label the
\* match names, a label it does not name, and none
Kinds ==
    {<<None, None>>, <<"Ol", None>>, <<"Roda viner", None>>,
     <<"Vita viner", None>>, <<"Mousserande viner", None>>, <<"Roseviner", None>>,
     <<"Aperitif & dessert", "Cider">>, <<"Cider och blanddrycker", "Cider">>,
     <<"Cider och blanddrycker", "Blanddrycker">>,
     <<"Cider och blanddrycker", None>>, <<"Sprit", None>>,
     <<"Alkoholfritt", None>>}

\* one product of the regular assortment, in stock, of each kind
KindProducts == {Product(k[1], k[2], "FS", 5, 50, 20, 1, FALSE) : k \in Kinds}

\* products the filter has a reason to drop: an excluded assortment, no
\* alcohol, out of stock
DroppedProducts ==
    {Product("Roda viner", None, "BS", 12, 75, 100, 0, FALSE),
     Product("Sprit", None, "TSLS", 40, 70, 300, 0, FALSE),
     Product("Ol", None, "FS", 0, 33, 10, 1, FALSE),
     Product(None, None, "FS", -1, 33, 10, 1, FALSE),
     Product("Roda viner", None, "FS", 12, 75, 100, 0, TRUE)}

\* beers whose apk exceeds, and is infinitely above, that of the beer among
\* KindProducts
ScoredProducts ==
    {Product("Ol", None, "FS", 5, 50, 10, 0, FALSE),
     Product("Ol", None, "FS", 5, 33, 0, 0, FALSE)}

RenderProducts ==
    KindProducts \cup DroppedProducts \cup ScoredProducts
        \cup {NoAssortment}

\* the product lists render is run on by itself
RenderCatalogs == SeqsUpTo(RenderProducts, MaxRenderProducts)

(***************************************************************************)
(* The Categorizer: the filter and the match of render.                    *)
(***************************************************************************)
\* Option::unwrap_or
UnwrapOr(opt, default) == IF opt = None THEN default ELSE opt

\* The closure given to filter: "keep", "drop", or "panic" when unwrap meets
\* a None assortment. && evaluates left to right and stops at the first
\* false operand.
\* a filter that forgets the stock flag
FilterDrinkKeepsOutOfStock(drink) ==
    IF ~(drink.alcohol_percentage > 0) THEN "drop"
    ELSE IF drink.assortment = None THEN "panic"
    ELSE IF drink.assortment = "BS" THEN "drop"
    ELSE IF drink.assortment = "TSLS" THEN "drop"
    ELSE "keep"

FilterDrink(drink) ==
    IF ~(drink.alcohol_percentage > 0) THEN "drop"
    ELSE IF drink.assortment = None THEN "panic"
    ELSE IF drink.assortment = "BS" THEN "drop"
    ELSE IF drink.assortment = "TSLS" THEN "drop"
    ELSE IF drink.is_completely_out_of_stock THEN "drop"
    ELSE "keep"

WineCategories ==
    {"Roda viner", "Vita viner", "Mousserande viner", "Roseviner", "Aperitif & dessert"}

\* The closure given to for_each: the vector the drink is pushed to.
GroupOf(drink) ==
    LET category == UnwrapOr(drink.category, "Other")
    IN  IF category \in WineCategories THEN "wines"
        ELSE IF category = "Ol" THEN "beers"
        ELSE IF category = "Cider och blanddrycker"
             THEN IF UnwrapOr(drink.sub_category, "Other") = "Cider"
                  THEN "ciders" ELSE "others"
        ELSE IF category = "Sprit" THEN "liquors"
        ELSE "others"

GroupNames == {"wines", "beers", "ciders", "liquors", "others"}

EmptyGroups == [g \in GroupNames |-> << >>]

\* filter(..).for_each(..) over products[i..]: the five vectors, with
\* panicked set when the filter closure panicked on some product.
RECURSIVE CategorizeFrom(_, _, _)
CategorizeFrom(products, i, groups) ==
    IF i > Len(products) THEN [panicked |-> FALSE, groups |-> groups]
    ELSE LET drink == products[i]
             verdict == FilterDrink(drink)
         IN  IF verdict = "panic" THEN [panicked |-> TRUE, groups |-> groups]
             ELSE IF verdict = "drop" THEN CategorizeFrom(products, i + 1, groups)
             ELSE CategorizeFrom(products, i + 1,
                      [groups EXCEPT ![GroupOf(drink)] = Append(@, drink)])

Categorize(products) == CategorizeFrom(products, 1, EmptyGroups)

(***************************************************************************)
(* The Ranker: apk, apk_comparator and sort_by.                            *)
(***************************************************************************)
\* apk as an f64: a finite quotient num/den, an infinity, or NaN
ApkNum(drink) == drink.alcohol_percentage * drink.volume
ApkDen(drink) == drink.price + drink.recycle_fee
ApkClass(drink) ==
    IF ApkDen(drink) # 0 THEN "finite"
    ELSE IF ApkNum(drink) > 0 THEN "+inf"
    ELSE IF ApkNum(drink) < 0 THEN "-inf"
    ELSE "nan"

\* apk(d1) < apk(d2) in f64 arithmetic (false whenever either is NaN)
ApkLess(d1, d2) ==
    LET c1 == ApkClass(d1)
        c2 == ApkClass(d2)
    IN  IF c1 = "nan" \/ c2 = "nan" THEN FALSE
        ELSE IF c1 = "finite" /\ c2 = "finite"
             THEN IF ApkDen(d1) * ApkDen(d2) > 0
                  THEN ApkNum(d1) * ApkDen(d2) < ApkNum(d2) * ApkDen(d1)
                  ELSE ApkNum(d1) * ApkDen(d2) > ApkNum(d2) * ApkDen(d1)
        ELSE IF c1 = c2 THEN FALSE
        ELSE c1 = "-inf" \/ c2 = "+inf"

\* a comparator that ranks the lowest apk first
apk_comparator_ascending(d1, d2) ==
    IF ApkLess(d1, d2) THEN "Less"
    ELSE IF ApkLess(d2, d1) THEN "Greater"
    ELSE "Equal"

apk_comparator(d1, d2) ==
    IF ApkLess(d1, d2) THEN "Greater"
    ELSE IF ApkLess(d2, d1) THEN "Less"
    ELSE "Equal"

\* slice::sort_by on a short slice is an insertion sort: each element moves
\* left past the elements it compares Less than, and stops at the first it
\* does not.
RECURSIVE InsertTail(_, _)
InsertTail(sorted, d) ==
    IF sorted = << >> THEN <<d>>
    ELSE IF apk_comparator(d, sorted[Len(sorted)]) = "Less"
         THEN Append(InsertTail(SubSeq(sorted, 1, Len(sorted) - 1), d), sorted[Len(sorted)])
         ELSE Append(sorted, d)

RECURSIVE SortFrom(_, _, _)
SortFrom(v, i, sorted) ==
    IF i > Len(v) THEN sorted ELSE SortFrom(v, i + 1, InsertTail(sorted, v[i]))

SortBy(v) == SortFrom(v, 1, << >>)

SortGroups(groups) == [g \in GroupNames |-> SortBy(groups[g])]

(***************************************************************************)
(* The Page Builder: the json! mapping and the page tera renders from it.  *)
(***************************************************************************)
DisplayNames == {"Ol", "Vin", "Cider", "Sprit", "Annat"}

\* a json! literal that lists the wines first
DrinksEntriesWineFirst(groups) ==
    << <<"Vin", groups.wines>>,
       <<"Ol", groups.beers>>,
       <<"Cider", groups.ciders>>,
       <<"Sprit", groups.liquors>>,
       <<"Annat", groups.others>> >>

\* the entries of the json! literal, in the order it inserts them
DrinksEntries(groups) ==
    << <<"Ol", groups.beers>>,
       <<"Vin", groups.wines>>,
       <<"Cider", groups.ciders>>,
       <<"Sprit", groups.liquors>>,
       <<"Annat", groups.others>> >>

\* whether the Map that json! builds keeps its entries in insertion order
\* (serde_json's preserve_order) or in the order of their keys
PreserveOrder == TRUE

\* the display names in the order of their bytes: "Ol" stands for a name
\* whose first letter is not ASCII, and so comes last
KeyOrder == <<"Annat", "Cider", "Sprit", "Vin", "Ol">>

\* the entries of a Map as iterating over it yields them
MapIter(entries) ==
    IF PreserveOrder THEN entries
    ELSE [i \in 1..Len(KeyOrder) |->
             entries[CHOOSE k \in 1..Len(entries) : entries[k][1] = KeyOrder[i]]]

\* the value inserted in the context under "drinks"
Drinks(groups) == MapIter(DrinksEntries(groups))

\* The page tera renders from a context: a page is a sequence of rendered
\* contexts, the empty string being the empty sequence.
TeraRender(drinks) == <<drinks>>

\* "".to_string(), the page before the first publish
Placeholder == << >>


(***************************************************************************)
(* The state: the Scheduler task, the shared page behind its RwLock, and   *)
(* the request handlers.                                                   *)
(***************************************************************************)
VARIABLES
    sched_pc,    \* where the Scheduler task is
    products,    \* render: the fetched product list
    groups,      \* render: the vectors wines, beers, ciders, liquors, others
    body,        \* the page render returned, until it is moved into the cache
    delay,       \* the loop's delay, 0 while unassigned
    page,        \* the String inside the RwLock
    writer,      \* TRUE while the Scheduler holds the write guard
    readGuards,  \* the handlers that hold a read guard
    poisoned,    \* the RwLock's poison flag
    rd_pc,       \* where each request handler is
    response,    \* the last reply each handler built
    cycles,      \* history: refresh attempts begun
    waits,       \* history: waits completed
    fails,       \* history: consecutive failed attempts up to now
    version,     \* history: publishes completed
    built,       \* history: the pages render returned, in order
    pageAtStart, \* history: the page when the current attempt began
    recording,   \* history: TRUE in the behaviours that keep fetched and log
    fetched,     \* history: the product list the current attempt fetched
    log          \* history: failures, publishes and waits, in order

vars == <<sched_pc, products, groups, body, delay, page, writer, readGuards,
          poisoned, rd_pc, response, cycles, waits, fails, version, built,
          pageAtStart, recording, fetched, log>>

schedLocals == <<products, groups, body, delay>>
lockVars == <<writer, readGuards, poisoned>>
readerVars == <<rd_pc, response>>
history == <<cycles, waits, fails, version, built, pageAtStart, recording,
             fetched, log>>

\* an entry of the log: what happened, the seconds waited (0 unless a wait)
\* and the page in the cache right after
Event(ev, secs, p) == [ev |-> ev, secs |-> secs, page |-> p]

\* the log with one more entry, where the log is kept
Logged(e) == IF recording THEN Append(log, e) ELSE log

\* the reply of a handler that has not replied yet
NoResponse == [status |-> 0, body |-> Placeholder, version |-> 0]

Init ==
    /\ sched_pc = "update"
    /\ products = << >>
    /\ groups = EmptyGroups
    /\ body = << >>
    /\ delay = 0
    /\ page = Placeholder
    /\ writer = FALSE
    /\ readGuards = {}
    /\ poisoned = FALSE
    /\ rd_pc = [r \in Readers |-> "idle"]
    /\ response = [r \in Readers |-> NoResponse]
    /\ cycles = 0
    /\ waits = 0
    /\ fails = 0
    /\ version = 0
    /\ built = << >>
    /\ pageAtStart = Placeholder
    /\ recording = FALSE
    /\ fetched = << >>
    /\ log = << >>

(***************************************************************************)
(* The RwLock.                                                             *)
(***************************************************************************)
\* write() returns: nobody holds a guard
WriteLockFree == ~writer /\ readGuards = {}

\* a lock whose readers are not kept out by the write guard
ReadLockIgnoresWriter == TRUE

\* read() can return: no write guard is held. Whether a reader is let in
\* while the writer waits is the platform's choice; here it may be.
ReadLockFree == ~writer

\* The task panics: its guard, if it holds one, is dropped while unwinding,
\* which poisons the lock; tokio ends the task and keeps the runtime.
SchedulerPanics ==
    /\ sched_pc' = "panicked"
    /\ poisoned' = (poisoned \/ writer)
    /\ writer' = FALSE
    /\ products' = << >>
    /\ groups' = EmptyGroups
    /\ body' = << >>
    /\ UNCHANGED <<delay, page, readGuards, readerVars, history>>

(***************************************************************************)
(* The Scheduler: the loop of the task main spawns, with render inlined.   *)
(***************************************************************************)
\* loop top: "Updating APK list...", render is called
\* a loop that takes the write guard before it starts the refresh
UpdateTakesGuard ==
    /\ sched_pc = "update"
    /\ cycles < MaxCycles
    /\ WriteLockFree
    /\ ~poisoned
    /\ writer' = TRUE
    /\ sched_pc' = "fetch"
    /\ cycles' = cycles + 1
    /\ pageAtStart' = page
    /\ UNCHANGED <<schedLocals, page, readGuards, poisoned, readerVars,
                   waits, fails, version, built, recording, fetched, log>>

Update ==
    /\ sched_pc = "update"
    /\ cycles < MaxCycles
    /\ sched_pc' = "fetch"
    /\ cycles' = cycles + 1
    /\ pageAtStart' = page
    /\ UNCHANGED <<schedLocals, page, lockVars, readerVars,
                   waits, fails, version, built, recording, fetched, log>>

\* an Err arm that empties the cache
ErrArmClearsPage ==
    /\ delay' = RETRY_INTERVAL
    /\ sched_pc' = "delay"
    /\ fails' = fails + 1
    /\ products' = << >>
    /\ groups' = EmptyGroups
    /\ page' = Placeholder
    /\ fetched' = << >>
    /\ log' = Logged(Event("fail", 0, page'))
    /\ UNCHANGED <<body, lockVars, readerVars,
                   cycles, waits, version, built, pageAtStart, recording>>

\* an Err arm whose delay grows with the failures in a row
ErrArmBacksOff ==
    /\ delay' = RETRY_INTERVAL * (fails + 1)
    /\ sched_pc' = "delay"
    /\ fails' = fails + 1
    /\ products' = << >>
    /\ groups' = EmptyGroups
    /\ fetched' = << >>
    /\ log' = Logged(Event("fail", 0, page))
    /\ UNCHANGED <<body, page, lockVars, readerVars,
                   cycles, waits, version, built, pageAtStart, recording>>

\* an Err arm that waits the long interval
ErrArmWaitsLong ==
    /\ delay' = UPDATE_INTERVAL
    /\ sched_pc' = "delay"
    /\ fails' = fails + 1
    /\ products' = << >>
    /\ groups' = EmptyGroups
    /\ fetched' = << >>
    /\ log' = Logged(Event("fail", 0, page))
    /\ UNCHANGED <<body, page, lockVars, readerVars,
                   cycles, waits, version, built, pageAtStart, recording>>

\* the Err arm of the match on render's result
ErrArm ==
    /\ delay' = RETRY_INTERVAL
    /\ sched_pc' = "delay"
    /\ fails' = fails + 1
    /\ products' = << >>
    /\ groups' = EmptyGroups
    /\ fetched' = << >>
    /\ log' = Logged(Event("fail", 0, page))
    /\ UNCHANGED <<body, page, lockVars, readerVars,
                   cycles, waits, version, built, pageAtStart, recording>>

\* get_all_products().await returns Ok(products)
FetchOk ==
    /\ sched_pc = "fetch"
    /\ \E c \in Catalogs : products' = c
    /\ fetched' = (IF recording THEN products' ELSE << >>)
    /\ sched_pc' = "categorize"
    /\ UNCHANGED <<groups, body, delay, page, lockVars, readerVars,
                   cycles, waits, fails, version, built, pageAtStart,
                   recording, log>>

\* get_all_products().await returns Err: ? returns it from render
FetchErr ==
    /\ sched_pc = "fetch"
    /\ ErrArm

\* products.into_iter().filter(..).for_each(..)
CategorizeStep ==
    /\ sched_pc = "categorize"
    /\ LET result == Categorize(products)
       IN  IF result.panicked
           THEN SchedulerPanics
           ELSE /\ groups' = result.groups
                /\ products' = << >>
                /\ sched_pc' = "sort"
                /\ UNCHANGED <<body, delay, page, lockVars, readerVars, history>>

\* the five sort_by calls
Sort ==
    /\ sched_pc = "sort"
    /\ groups' = SortGroups(groups)
    /\ sched_pc' = "tera"
    /\ UNCHANGED <<products, body, delay, page, lockVars, readerVars, history>>

\* an Ok arm that begins by taking a read guard of its own (0 is the
\* Scheduler among the holders) and keeps it
TeraOkHoldsReadGuard ==
    /\ sched_pc = "tera"
    /\ body' = TeraRender(Drinks(groups))
    /\ built' = Append(built, body')
    /\ groups' = EmptyGroups
    /\ readGuards' = readGuards \cup {0}
    /\ sched_pc' = "write"
    /\ UNCHANGED <<products, delay, page, writer, poisoned, readerVars,
                   cycles, waits, fails, version, pageAtStart, recording,
                   fetched, log>>

\* json!, Context::insert, and tera.render returns Ok(body): the Ok arm begins
TeraOk ==
    /\ sched_pc = "tera"
    /\ body' = TeraRender(Drinks(groups))
    /\ built' = Append(built, body')
    /\ groups' = EmptyGroups
    /\ sched_pc' = "write"
    /\ UNCHANGED <<products, delay, page, lockVars, readerVars,
                   cycles, waits, fails, version, pageAtStart, recording,
                   fetched, log>>

\* tera.render returns Err
TeraErr ==
    /\ sched_pc = "tera"
    /\ ErrArm

\* an Ok arm that writes the page without taking the write guard
WriteLockSkipsGuard ==
    /\ sched_pc = "write"
    /\ sched_pc' = "assign"
    /\ UNCHANGED <<schedLocals, page, lockVars, readerVars, history>>

\* page.write().unwrap()
WriteLock ==
    /\ sched_pc = "write"
    /\ WriteLockFree
    /\ IF poisoned
       THEN SchedulerPanics
       ELSE /\ writer' = TRUE
            /\ sched_pc' = "assign"
            /\ UNCHANGED <<schedLocals, page, readGuards, poisoned,
                           readerVars, history>>

\* a String that is being overwritten: neither the old nor the new one
Torn(old, new) == <<old, new>>

\* *page = body, first half: the old String is dropped, the new one is
\* being moved in
AssignDrop ==
    /\ sched_pc = "assign"
    /\ page' = Torn(page, body)
    /\ sched_pc' = "store"
    /\ UNCHANGED <<schedLocals, lockVars, readerVars, history>>

\* an Ok arm that stores the page only into an empty cache
AssignStoreOnce ==
    /\ sched_pc = "store"
    /\ page' = (IF page[1] = Placeholder THEN body ELSE page[1])
    /\ body' = << >>
    /\ delay' = UPDATE_INTERVAL
    /\ version' = version + 1
    /\ fails' = 0
    /\ sched_pc' = "log"
    /\ fetched' = << >>
    /\ log' = Logged(Event("publish", 0, page'))
    /\ UNCHANGED <<products, groups, lockVars, readerVars,
                   cycles, waits, built, pageAtStart, recording>>

\* *page = body, second half, and delay = UPDATE_INTERVAL
AssignStore ==
    /\ sched_pc = "store"
    /\ page' = body
    /\ body' = << >>
    /\ delay' = UPDATE_INTERVAL
    /\ version' = version + 1
    /\ fails' = 0
    /\ sched_pc' = "log"
    /\ fetched' = << >>
    /\ log' = Logged(Event("publish", 0, page'))
    /\ UNCHANGED <<products, groups, lockVars, readerVars,
                   cycles, waits, built, pageAtStart, recording>>

\* a write guard that lives to the end of the loop body, across the wait
UnlockKeepsGuard ==
    /\ sched_pc = "log"
    /\ sched_pc' = "delay"
    /\ UNCHANGED <<schedLocals, page, lockVars, readerVars, history>>

\* "Succesfully updated APK list", then the write guard is dropped at the
\* end of the Ok arm. Writing to stderr is taken to succeed, here as at
\* every other eprintln.
Unlock ==
    /\ sched_pc = "log"
    /\ writer' = FALSE
    /\ sched_pc' = "delay"
    /\ UNCHANGED <<schedLocals, page, readGuards, poisoned,
                   readerVars, history>>

\* delay_for(delay).await elapses and the loop starts over
Delay ==
    /\ sched_pc = "delay"
    /\ sched_pc' = "update"
    /\ waits' = waits + 1
    /\ log' = Logged(Event("wait", delay, page))
    /\ UNCHANGED <<schedLocals, page, lockVars, readerVars,
                   cycles, fails, version, built, pageAtStart, recording, fetched>>

(***************************************************************************)
(* The request handlers: the warp route's two map closures.                *)
(***************************************************************************)
\* a handler that uses try_read: unwrap panics when the write guard is held
ReadLockTry(r) ==
    /\ rd_pc[r] = "idle"
    /\ IF poisoned \/ writer
       THEN /\ response' = [response EXCEPT ![r] =
                               [status |-> 500, body |-> Placeholder, version |-> 0]]
            /\ UNCHANGED <<rd_pc, readGuards>>
       ELSE /\ rd_pc' = [rd_pc EXCEPT ![r] = "copy"]
            /\ readGuards' = readGuards \cup {r}
            /\ UNCHANGED response
    /\ UNCHANGED <<sched_pc, schedLocals, page, writer, poisoned, history>>

\* A GET request arrives: page2.clone(), then (*page).read().unwrap()
\* returns. A request that finds the lock taken waits inside read(), which
\* is this action not being enabled. A poisoned lock makes unwrap panic,
\* and the request gets no reply with a page.
ReadLock(r) ==
    /\ rd_pc[r] = "idle"
    /\ ReadLockFree
    /\ IF poisoned
       THEN /\ response' = [response EXCEPT ![r] =
                               [status |-> 500, body |-> Placeholder, version |-> 0]]
            /\ UNCHANGED <<rd_pc, readGuards>>
       ELSE /\ rd_pc' = [rd_pc EXCEPT ![r] = "copy"]
            /\ readGuards' = readGuards \cup {r}
            /\ UNCHANGED response
    /\ UNCHANGED <<sched_pc, schedLocals, page, writer, poisoned, history>>

\* a handler that takes the page out of the cache for its reply
CopyTakesPage(r) ==
    /\ rd_pc[r] = "copy"
    /\ response' = [response EXCEPT ![r] =
                       [status |-> 200, body |-> page, version |-> version]]
    /\ page' = Placeholder
    /\ readGuards' = readGuards \ {r}
    /\ rd_pc' = [rd_pc EXCEPT ![r] = "idle"]
    /\ UNCHANGED <<sched_pc, schedLocals, writer, poisoned, history>>

\* a handler that keeps its read guard after the reply is built
CopyKeepsGuard(r) ==
    /\ rd_pc[r] = "copy"
    /\ response' = [response EXCEPT ![r] =
                       [status |-> 200, body |-> page, version |-> version]]
    /\ rd_pc' = [rd_pc EXCEPT ![r] = "idle"]
    /\ UNCHANGED <<sched_pc, schedLocals, page, lockVars, history>>

\* html(guard.to_string()): the page is copied into a reply with status 200,
\* the read guard is dropped and the reply is sent
Copy(r) ==
    /\ rd_pc[r] = "copy"
    /\ response' = [response EXCEPT ![r] =
                       [status |-> 200, body |-> page, version |-> version]]
    /\ readGuards' = readGuards \ {r}
    /\ rd_pc' = [rd_pc EXCEPT ![r] = "idle"]
    /\ UNCHANGED <<sched_pc, schedLocals, page, writer, poisoned, history>>

Next ==
    \/ Update
    \/ FetchOk
    \/ FetchErr
    \/ CategorizeStep
    \/ Sort
    \/ TeraOk
    \/ TeraErr
    \/ WriteLock
    \/ AssignDrop
    \/ AssignStore
    \/ Unlock
    \/ Delay
    \/ \E r \in Readers : ReadLock(r)
    \/ \E r \in Readers : Copy(r)

Spec == Init /\ [][Next]_vars

(***************************************************************************)
(* The Scheduler alone, with its log kept: no request arrives.             *)
(***************************************************************************)
SchedInit ==
    /\ sched_pc = "update"
    /\ products = << >>
    /\ groups = EmptyGroups
    /\ body = << >>
    /\ delay = 0
    /\ page = Placeholder
    /\ writer = FALSE
    /\ readGuards = {}
    /\ poisoned = FALSE
    /\ rd_pc = [r \in Readers |-> "idle"]
    /\ response = [r \in Readers |-> NoResponse]
    /\ cycles = 0
    /\ waits = 0
    /\ fails = 0
    /\ version = 0
    /\ built = << >>
    /\ pageAtStart = Placeholder
    /\ recording = TRUE
    /\ fetched = << >>
    /\ log = << >>

SchedNext ==
    \/ Update
    \/ FetchOk
    \/ FetchErr
    \/ CategorizeStep
    \/ Sort
    \/ TeraOk
    \/ TeraErr
    \/ WriteLock
    \/ AssignDrop
    \/ AssignStore
    \/ Unlock
    \/ Delay

SchedSpec == SchedInit /\ [][SchedNext]_vars

(***************************************************************************)
(* The end of one refresh, from the call of tera.render to the end of the  *)
(* wait, with the request handlers, under fair scheduling: the Scheduler   *)
(* task takes a step whenever it can keep taking one; write() returns if   *)
(* the lock is free again and again while it waits; a handler that holds   *)
(* the read guard finishes its copy and drops the guard.  Nothing makes    *)
(* requests arrive.                                                        *)
(***************************************************************************)
\* the first refresh has fetched, categorized and sorted an empty list
LiveInit ==
    /\ sched_pc = "tera"
    /\ products = << >>
    /\ groups = EmptyGroups
    /\ body = << >>
    /\ delay = 0
    /\ page = Placeholder
    /\ writer = FALSE
    /\ readGuards = {}
    /\ poisoned = FALSE
    /\ rd_pc = [r \in Readers |-> "idle"]
    /\ response = [r \in Readers |-> NoResponse]
    /\ cycles = 1
    /\ waits = 0
    /\ fails = 0
    /\ version = 0
    /\ built = << >>
    /\ pageAtStart = Placeholder
    /\ recording = FALSE
    /\ fetched = << >>
    /\ log = << >>

LiveSched ==
    \/ TeraOk
    \/ TeraErr
    \/ WriteLock
    \/ AssignDrop
    \/ AssignStore
    \/ Unlock
    \/ Delay

LiveNext ==
    \/ LiveSched
    \/ \E r \in Readers : ReadLock(r)
    \/ \E r \in Readers : Copy(r)

LiveSpec ==
    /\ LiveInit
    /\ [][LiveNext]_vars
    /\ WF_vars(LiveSched)
    /\ SF_vars(WriteLock)
    /\ \A r \in Readers : WF_vars(Copy(r))

(***************************************************************************)
(* render by itself, from the moment the fetch has returned a product      *)
(* list, to its result.                                                    *)
(***************************************************************************)
RenderInit ==
    /\ sched_pc = "categorize"
    /\ products \in RenderCatalogs
    /\ groups = EmptyGroups
    /\ body = << >>
    /\ delay = 0
    /\ page = Placeholder
    /\ writer = FALSE
    /\ readGuards = {}
    /\ poisoned = FALSE
    /\ rd_pc = [r \in Readers |-> "idle"]
    /\ response = [r \in Readers |-> NoResponse]
    /\ cycles = 1
    /\ waits = 0
    /\ fails = 0
    /\ version = 0
    /\ built = << >>
    /\ pageAtStart = Placeholder
    /\ recording = TRUE
    /\ fetched = products
    /\ log = << >>

RenderNext ==
    \/ CategorizeStep
    \/ Sort
    \/ TeraOk
    \/ TeraErr

RenderSpec == RenderInit /\ [][RenderNext]_vars


(***************************************************************************)
(* The published snapshots.                                                *)
(***************************************************************************)
\* the page of the v-th publish, the placeholder being number 0
Snap(v) == IF v = 0 THEN Placeholder ELSE built[v]

\* the placeholder and the pages published so far
PublishedPages == {Snap(v) : v \in 0..version}

\* the handlers that hold a reply with a page
Answered == {r \in Readers : response[r].status = 200}

(***************************************************************************)
(* C1: whatever a reader can obtain from the cache is the placeholder or   *)
(* the whole page of an earlier refresh whose fetch and render succeeded   *)
(* and which was published: while a handler holds the read guard the       *)
(* cache holds the latest such page, and every page a handler has copied   *)
(* is one of them.                                                         *)
(***************************************************************************)
SnapshotAlwaysComplete ==
    /\ version <= Len(built)
    /\ \A r \in Readers : rd_pc[r] = "copy" => page = Snap(version)
    /\ \A r \in Answered : response[r].body \in PublishedPages

\* a handler copies a published page while the next refresh is under way
SnapshotAlwaysCompleteWitness ==
    \E r \in Readers :
        /\ rd_pc[r] = "copy"
        /\ version >= 1
        /\ sched_pc \in {"categorize", "sort", "tera"}

(***************************************************************************)
(* C2: a refresh that fails, in the fetch or in the render, leaves the     *)
(* cache as it was when the attempt began: it holds the page of the last   *)
(* publish, the placeholder if there was none.                             *)
(***************************************************************************)
FailedRefreshKeepsPage ==
    ((sched_pc = "delay" /\ fails > 0) \/ sched_pc = "panicked") =>
        (page = pageAtStart /\ page = Snap(version))

\* a refresh fails after an earlier one published a page
FailedRefreshKeepsPageWitness ==
    /\ sched_pc = "delay"
    /\ fails > 0
    /\ version > 0
    /\ page # Placeholder

(***************************************************************************)
(* C3: one wait separates consecutive attempts, 7200 s long after a        *)
(* success and 5 s after a failure, however many failures came in a row.   *)
(***************************************************************************)
WaitChosenByLastOutcome ==
    /\ sched_pc = "delay" =>
           delay = (IF fails = 0 THEN 7200 ELSE 5)
    /\ waits = (IF sched_pc = "update" THEN cycles ELSE cycles - 1)

\* the wait after the second failure in a row
WaitChosenByLastOutcomeWitness ==
    /\ sched_pc = "delay"
    /\ fails = 2
    /\ delay = 5

(***************************************************************************)
(* C4: readers around one publish get the whole old page or the whole new  *)
(* page: a reply built since the publish before last holds one of the two  *)
(* latest snapshots.                                                       *)
(***************************************************************************)
ReadersSeeOldOrNew ==
    \A r \in Answered :
        /\ response[r].version <= version
        /\ (version > 0 /\ response[r].version >= version - 1) =>
               response[r].body \in {Snap(version - 1), Snap(version)}

\* two handlers read around one publish: one got the old page, one the new
ReadersSeeOldOrNewWitness ==
    \E r1, r2 \in Answered :
        /\ response[r1].version + 1 = response[r2].version
        /\ response[r2].version = version
        /\ response[r1].body # response[r2].body


(***************************************************************************)
(* C5: the Scheduler has no terminal state: no refresh outcome ends the    *)
(* task.                                                                   *)
(***************************************************************************)
SchedulerNeverTerminates == sched_pc # "panicked"

(***************************************************************************)
(* C6: categorizing a fetched product list never fails on a product whose  *)
(* category, sub_category or assortment is absent.                         *)
(***************************************************************************)
AbsentOptionalFieldsNeverFail ==
    sched_pc = "categorize" => ~Categorize(products).panicked

(***************************************************************************)
(* C7: the Scheduler holds the write guard only in the Ok arm, around the  *)
(* replacement of the page, so a read can take the lock whenever the       *)
(* Scheduler is fetching, categorizing, sorting, rendering or waiting.     *)
(***************************************************************************)
RefreshPhases == {"fetch", "categorize", "sort", "tera", "delay"}

ReadsFreshAndStable ==
    [][\A r \in Readers :
          (rd_pc[r] = "copy" /\ rd_pc'[r] = "idle") =>
              /\ response'[r].body = Snap(version)
              /\ response'[r].version >= response[r].version]_vars

\* both handlers have read the second published page
ReadsFreshAndStableWitness ==
    /\ version = 2
    /\ Snap(1) # Snap(2)
    /\ \A r \in Readers :
           r \in Answered /\ response[r].version = 2 /\ response[r].body = Snap(2)

PageBefore(i) == IF i = 1 THEN Placeholder ELSE log[i - 1].page

\* the publishes among the first i entries of the log
PublishesUpTo(i) == Cardinality({j \in 1..i : log[j].ev = "publish"})

FailFailSucceed ==
    /\ \A j \in 1..Len(log) :
           IF j % 2 = 1 THEN log[j].ev \in {"fail", "publish"} ELSE log[j].ev = "wait"
    /\ \A i \in 1..Len(log) :
           (/\ i + 4 <= Len(log)
            /\ log[i].ev = "fail"
            /\ log[i + 2].ev = "fail"
            /\ log[i + 4].ev = "publish") =>
               /\ \A j \in i..(i + 3) : log[j].page = PageBefore(i)
               /\ log[i + 1].secs = 5
               /\ log[i + 3].secs = 5
               /\ log[i + 4].page = Snap(PublishesUpTo(i + 4))
               /\ PublishesUpTo(i + 4) = PublishesUpTo(i) + 1
               /\ i + 5 <= Len(log) =>
                      /\ log[i + 5].secs = 7200
                      /\ log[i + 5].page = log[i + 4].page

\* two failures, then a success that replaced the placeholder, then its wait
FailFailSucceedWitness ==
    /\ Len(log) = 6
    /\ log[1].ev = "fail"
    /\ log[3].ev = "fail"
    /\ log[5].ev = "publish"
    /\ log[6].ev = "wait"
    /\ page # Placeholder
    /\ version = 1


\* how many times p occurs in the sequence v
Occurrences(p, v) == Cardinality({i \in 1..Len(v) : v[i] = p})

\* a product the filter has a reason to drop
Excluded(p) ==
    \/ ~(p.alcohol_percentage > 0)
    \/ p.is_completely_out_of_stock
    \/ p.assortment \in {"BS", "TSLS"}

Eligible(p) == ~Excluded(p)

(***************************************************************************)
(* C12: a product of the fetched list that has no alcohol, is completely   *)
(* out of stock, or is of assortment "BS" or "TSLS" is in none of the five *)
(* groups, and in none of the sequences handed to the template, whatever   *)
(* its category and sub_category.                                          *)
(***************************************************************************)
ExcludedInNoGroup ==
    \A i \in 1..Len(fetched) :
        Excluded(fetched[i]) =>
            /\ \A g \in GroupNames : Occurrences(fetched[i], groups[g]) = 0
            /\ \A b \in 1..Len(body) : \A k \in 1..Len(body[b]) :
                   Occurrences(fetched[i], body[b][k][2]) = 0

\* a list with a product to drop and a product to keep has been grouped
ExcludedInNoGroupWitness ==
    /\ sched_pc \in {"sort", "tera"}
    /\ groups # EmptyGroups
    /\ \E i, j \in 1..Len(fetched) :
           /\ Excluded(fetched[i])
           /\ fetched[i].category # None
           /\ Eligible(fetched[j])

\* the group the priority rules give a product
ExpectedGroup(p) ==
    IF p.category \in WineCategories THEN "wines"
    ELSE IF p.category = "Ol" THEN "beers"
    ELSE IF p.category = "Cider och blanddrycker" /\ p.sub_category = "Cider" THEN "ciders"
    ELSE IF p.category = "Cider och blanddrycker" THEN "others"
    ELSE IF p.category = "Sprit" THEN "liquors"
    ELSE "others"

(***************************************************************************)
(* C13: once render is past the categorization of a fetched list, every    *)
(* eligible product of the list is in the group its category and           *)
(* sub_category give it, as many times as it is in the list, and in no     *)
(* other group.                                                            *)
(***************************************************************************)
EligibleInExactlyOneGroup ==
    sched_pc \in {"sort", "tera", "panicked"} =>
        \A i \in 1..Len(fetched) :
            Eligible(fetched[i]) =>
                \A g \in GroupNames :
                    Occurrences(fetched[i], groups[g]) =
                        IF g = ExpectedGroup(fetched[i])
                        THEN Occurrences(fetched[i], fetched)
                        ELSE 0

\* score(a) > score(b), for products with alcohol and volume: a quotient by
\* zero is above every finite score
ScoreGreater(a, b) ==
    IF a.price + a.recycle_fee = 0 THEN b.price + b.recycle_fee # 0
    ELSE IF b.price + b.recycle_fee = 0 THEN FALSE
    ELSE a.alcohol_percentage * a.volume * (b.price + b.recycle_fee)
             > b.alcohol_percentage * b.volume * (a.price + a.recycle_fee)

(***************************************************************************)
(* C14: the sort leaves every group with the same products, each as many   *)
(* times as before, and with every product of a higher score before every  *)
(* product of a lower one.                                                 *)
(***************************************************************************)
RankedByScore ==
    [][(sched_pc = "sort" /\ sched_pc' = "tera") =>
          \A g \in GroupNames :
              /\ \A i, j \in 1..Len(groups'[g]) :
                     ScoreGreater(groups'[g][i], groups'[g][j]) => i < j
              /\ Len(groups'[g]) = Len(groups[g])
              /\ \A i \in 1..Len(groups[g]) :
                     Occurrences(groups[g][i], groups'[g]) =
                         Occurrences(groups[g][i], groups[g])]_vars

\* three beers of three scores were fetched in another order than the ranked
RankedByScoreWitness ==
    /\ sched_pc = "tera"
    /\ Len(groups["beers"]) = 3
    /\ ScoreGreater(groups["beers"][1], groups["beers"][2])
    /\ ScoreGreater(groups["beers"][2], groups["beers"][3])
    /\ fetched # groups["beers"]

SchedulerSoleWriter ==
    /\ [](cycles - waits \in {0, 1})
    /\ [][/\ page' # page =>
                /\ sched_pc \in {"assign", "store"}
                /\ sched_pc' # sched_pc
                /\ writer
                /\ readerVars' = readerVars
          /\ readerVars' # readerVars =>
                /\ page' = page
                /\ version' = version
                /\ sched_pc' = sched_pc]_vars

\* a request was served from a published page while the next refresh is
\* under way, and the page is still the published one
SchedulerSoleWriterWitness ==
    /\ version >= 1
    /\ cycles = version + 1
    /\ sched_pc \in {"fetch", "categorize", "sort", "tera"}
    /\ \E r \in Readers :
           /\ response[r].status = 200
           /\ response[r].version = version
           /\ response[r].body = page
           /\ page # Placeholder

Published ==
    /\ sched_pc = "log"
    /\ version = Len(built)
    /\ page = Snap(version)

====
